---- MODULE Spec2Model ----
(***************************************************************************)
(* Product API: server.js (process bootstrap) and routes/productRoutes.js  *)
(* (five request handlers over the Product collection).                    *)
(*                                                                         *)
(* models/Product.js and config/connection.js are not among the sources;   *)
(* the schema, the storage calls and connectDB are modelled from the       *)
(* specification (sections 3, 4.2 and 6) and from the schema table of the  *)
(* README.                                                                 *)
(***************************************************************************)
EXTENDS Integers, Sequences, FiniteSets, TLC

\* ------------------------------------------------------------------ bounds
\* Largest number of records the collection holds in the model.
MaxProducts == 2
\* Largest identifier the storage engine hands out in the model.
MaxId == 3

\* --------------------------------------------------------------- variables
VARIABLES
  pc,         \* position of the server.js top-level script
  conn,       \* state of the storage connection
  listening,  \* app.listen has been called
  db,         \* the products collection, in natural (insertion) order
  nextId,     \* next identifier the storage engine assigns
  req,        \* the request handled last
  resp        \* the response sent last

vars == <<pc, conn, listening, db, nextId, req, resp>>

\* ----------------------------------------------------------- small helpers
EmptyMap == [x \in {} |-> 0]

Has(m, k) == k \in DOMAIN m

\* One optional key of a request body or query string: absent, or one of vals.
Opt(k, vals) == {EmptyMap} \cup {[x \in {k} |-> v] : v \in vals}

Range(s) == {s[i] : i \in DOMAIN s}

Min(a, b) == IF a < b THEN a ELSE b

IdsOf(coll) == {coll[i].id : i \in DOMAIN coll}

IndexOf(coll, id) == CHOOSE i \in DOMAIN coll : coll[i].id = id

RemoveAt(s, i) == SubSeq(s, 1, i - 1) \o SubSeq(s, i + 1, Len(s))

\* ------------------------------------------------------- response shapes
NoReq == [op |-> "none", id |-> 0, body |-> EmptyMap, query |-> EmptyMap]

NoResp == [status |-> 0, body |-> "none", message |-> "", products |-> <<>>]

\* res.status(s).json({ message: m })
JsonMessage(s, m) ==
  [status |-> s, body |-> "message", message |-> m, products |-> <<>>]

\* res.status(s).json(product)
JsonProduct(s, p) ==
  [status |-> s, body |-> "product", message |-> "", products |-> <<p>>]

\* res.json(products)
JsonList(ps) ==
  [status |-> 200, body |-> "list", message |-> "", products |-> ps]

\* ----------------------------------------------------- Product schema
RequiredPaths == {"name", "description", "price", "category"}

\* Paths the schema never lets an update touch.
ImmutablePaths == {"id", "createdAt"}

\* One path of a candidate document or of an update: required text is
\* non-empty, price is strictly positive.
PathValid(k, v) ==
  CASE k \in {"name", "description", "category"} -> v # ""
    [] k = "price" -> v > 0
    [] OTHER -> TRUE

\* Document validation run by save(): every required path present and valid.
ValidateDoc(doc) ==
  /\ \A k \in RequiredPaths : Has(doc, k)
  /\ \A k \in DOMAIN doc : PathValid(k, doc[k])

\* Update validators (runValidators): only the paths named by the update.
ValidateUpdate(upd) == \A k \in DOMAIN upd : PathValid(k, upd[k])

\* id strings that cast to a storage identifier; 0 stands for a string that
\* does not (for instance "abc").
IsObjectId(id) == id >= 1

\* new Product(fields): defaults applied, id and createdAt assigned.
NewDocument(fields, id, now) ==
  [id |-> id,
   name |-> fields["name"],
   description |-> fields["description"],
   price |-> fields["price"],
   category |-> fields["category"],
   inStock |-> IF Has(fields, "inStock") THEN fields["inStock"] ELSE TRUE,
   tags |-> IF Has(fields, "tags") THEN fields["tags"] ELSE <<>>,
   createdAt |-> now]

\* $set of an update on a stored record: named mutable paths replaced.
ApplyUpdate(p, upd) ==
  [k \in DOMAIN p |->
     IF Has(upd, k) /\ k \notin ImmutablePaths THEN upd[k] ELSE p[k]]

\* ---------------------------------------------------------- server.js
\* connectDB() is called and its promise is not awaited.
Boot_ConnectDB ==
  /\ pc = "connectDB"
  /\ conn' = "connecting"
  /\ pc' = "listen"
  /\ UNCHANGED <<listening, db, nextId, req, resp>>

\* app.use(...) registrations, then app.listen(PORT, ...).
Boot_Listen ==
  /\ pc = "listen"
  /\ listening' = TRUE
  /\ pc' = "running"
  /\ UNCHANGED <<conn, db, nextId, req, resp>>

\* The connection promise settles; callbacks run only after the top-level
\* script has run to completion.
ConnectDB_Resolve ==
  /\ pc = "running"
  /\ conn = "connecting"
  /\ conn' = "connected"
  /\ UNCHANGED <<pc, listening, db, nextId, req, resp>>

ConnectDB_Reject ==
  /\ pc = "running"
  /\ conn = "connecting"
  /\ conn' = "failed"
  /\ UNCHANGED <<pc, listening, db, nextId, req, resp>>

\* A storage call completes normally only on an established connection;
\* otherwise (or on a driver error) it throws.
StorageOk(fault) == conn = "connected" /\ ~fault

\* ------------------------------------------------- inputs of the model
Without(m, k) == [x \in DOMAIN m \ {k} |-> m[x]]

With(m, k, v) == [x \in DOMAIN m \cup {k} |-> IF x = k THEN v ELSE m[x]]

BaseBody ==
  [name |-> "Laptop", description |-> "desc", price |-> 1,
   category |-> "Electronics", tags |-> <<"tech">>]

ValidBodies ==
  {BaseBody, With(With(BaseBody, "price", 2), "inStock", FALSE)}

InvalidBodies ==
  {Without(BaseBody, k) : k \in RequiredPaths}
    \cup {With(BaseBody, "name", ""), With(BaseBody, "price", 0),
          With(BaseBody, "price", -1)}

CreateBodies == ValidBodies \cup InvalidBodies

UpdateBodies ==
  {EmptyMap,
   [inStock |-> FALSE],
   [price |-> 2],
   [price |-> 0],
   [name |-> ""],
   [price |-> -1, inStock |-> FALSE],
   [id |-> 9, createdAt |-> 2, inStock |-> FALSE]}

IdParams == 0..MaxId

\* Date.now at the time of a create.
Times == {1}

\* ------------------------------------------------ routes/productRoutes.js
CreatePaths ==
  {"name", "description", "price", "category", "inStock", "tags"}

\* The object literal handed to new Product(...): six named paths of the body.
CreateFields(body) == [k \in DOMAIN body \cap CreatePaths |-> body[k]]

\* Variant: the update is built with the schema defaults filled in, the way
\* a create builds its document.
PutUpdateWithDefaults(body) ==
  [k \in DOMAIN body \cup {"inStock"} |->
     IF Has(body, k) THEN body[k] ELSE TRUE]

\* The update handed to findByIdAndUpdate: the request body as it is.
PutUpdate(body) == body

\* Variant: the update validators are not switched on.
PutOptionsNoValidators == [new |-> TRUE, runValidators |-> FALSE]

\* Options of findByIdAndUpdate.
PutOptions == [new |-> TRUE, runValidators |-> TRUE]

\* router.get("/:id")
GetProductById(id, fault) ==
  /\ listening
  /\ req' = [op |-> "getById", id |-> id, body |-> EmptyMap, query |-> EmptyMap]
  /\ resp' =
       IF ~IsObjectId(id) THEN JsonMessage(500, "CastError")
       ELSE IF ~StorageOk(fault) THEN JsonMessage(500, "StorageError")
       ELSE IF id \notin IdsOf(db) THEN JsonMessage(404, "Product not found")
       ELSE JsonProduct(200, db[IndexOf(db, id)])
  /\ UNCHANGED <<pc, conn, listening, db, nextId>>

\* router.post("/")
PostProduct(body, now, fault) ==
  LET fields == CreateFields(body)
      saved == ValidateDoc(fields) /\ StorageOk(fault)
  IN
  /\ listening
  /\ saved => (Len(db) < MaxProducts /\ nextId <= MaxId)
  /\ req' = [op |-> "post", id |-> 0, body |-> body, query |-> EmptyMap]
  /\ IF ~ValidateDoc(fields)
     THEN /\ resp' = JsonMessage(400, "ValidationError")
          /\ UNCHANGED <<db, nextId>>
     ELSE IF ~StorageOk(fault)
     THEN /\ resp' = JsonMessage(400, "StorageError")
          /\ UNCHANGED <<db, nextId>>
     ELSE LET newProduct == NewDocument(fields, nextId, now) IN
          /\ db' = Append(db, newProduct)
          /\ nextId' = nextId + 1
          /\ resp' = JsonProduct(201, newProduct)
  /\ UNCHANGED <<pc, conn, listening>>

\* router.put("/:id")
PutProduct(id, body, fault) ==
  LET update == PutUpdate(body) IN
  /\ listening
  /\ req' = [op |-> "put", id |-> id, body |-> body, query |-> EmptyMap]
  /\ IF ~IsObjectId(id)
     THEN /\ resp' = JsonMessage(400, "CastError")
          /\ UNCHANGED db
     ELSE IF PutOptions.runValidators /\ ~ValidateUpdate(update)
     THEN /\ resp' = JsonMessage(400, "ValidationError")
          /\ UNCHANGED db
     ELSE IF ~StorageOk(fault)
     THEN /\ resp' = JsonMessage(400, "StorageError")
          /\ UNCHANGED db
     ELSE IF id \notin IdsOf(db)
     THEN /\ resp' = JsonMessage(404, "Product not found")
          /\ UNCHANGED db
     ELSE LET i == IndexOf(db, id)
              updatedProduct == ApplyUpdate(db[i], update)
          IN
          /\ db' = [db EXCEPT ![i] = updatedProduct]
          /\ resp' = JsonProduct(200,
                       IF PutOptions.new THEN updatedProduct ELSE db[i])
  /\ UNCHANGED <<pc, conn, listening, nextId>>

\* Variant: the handler does not look at what findByIdAndDelete returned.
DeleteProductNoCheck(id, fault) ==
  /\ listening
  /\ req' = [op |-> "delete", id |-> id, body |-> EmptyMap, query |-> EmptyMap]
  /\ IF ~IsObjectId(id)
     THEN /\ resp' = JsonMessage(500, "CastError")
          /\ UNCHANGED db
     ELSE IF ~StorageOk(fault)
     THEN /\ resp' = JsonMessage(500, "StorageError")
          /\ UNCHANGED db
     ELSE /\ db' = IF id \in IdsOf(db) THEN RemoveAt(db, IndexOf(db, id))
                   ELSE db
          /\ resp' = JsonMessage(200, "Product deleted successfully")
  /\ UNCHANGED <<pc, conn, listening, nextId>>

\* router.delete("/:id")
DeleteProduct(id, fault) ==
  /\ listening
  /\ req' = [op |-> "delete", id |-> id, body |-> EmptyMap, query |-> EmptyMap]
  /\ IF ~IsObjectId(id)
     THEN /\ resp' = JsonMessage(500, "CastError")
          /\ UNCHANGED db
     ELSE IF ~StorageOk(fault)
     THEN /\ resp' = JsonMessage(500, "StorageError")
          /\ UNCHANGED db
     ELSE IF id \notin IdsOf(db)
     THEN /\ resp' = JsonMessage(404, "Product not found")
          /\ UNCHANGED db
     ELSE /\ db' = RemoveAt(db, IndexOf(db, id))
          /\ resp' = JsonMessage(200, "Product deleted successfully")
  /\ UNCHANGED <<pc, conn, listening, nextId>>

\* ---------------------------------------- query-string number parsing
\* A JavaScript number as far as the handlers need it: NaN or an integer.
NaN == [nan |-> TRUE, val |-> 0]

Num(n) == [nan |-> FALSE, val |-> n]

Digits == <<"0", "1", "2", "3", "4", "5", "6", "7", "8", "9">>

IsDigit(c) == \E i \in DOMAIN Digits : Digits[i] = c

DigitVal(c) == (CHOOSE i \in DOMAIN Digits : Digits[i] = c) - 1

RECURSIVE TrimLeft(_)
TrimLeft(s) ==
  IF s # <<>> /\ Head(s) = " " THEN TrimLeft(Tail(s)) ELSE s

RECURSIVE LeadingDigits(_)
LeadingDigits(s) ==
  IF s # <<>> /\ IsDigit(Head(s))
  THEN <<Head(s)>> \o LeadingDigits(Tail(s))
  ELSE <<>>

RECURSIVE DigitsValue(_)
DigitsValue(ds) ==
  IF ds = <<>> THEN 0
  ELSE 10 * DigitsValue(SubSeq(ds, 1, Len(ds) - 1)) + DigitVal(ds[Len(ds)])

RECURSIVE Pow10(_)
Pow10(n) == IF n = 0 THEN 1 ELSE 10 * Pow10(n - 1)

HasSign(t) == t # <<>> /\ Head(t) \in {"-", "+"}

Signed(t, n) == IF t # <<>> /\ Head(t) = "-" THEN 0 - n ELSE n

\* parseInt(s): leading blanks, a sign, then the longest run of digits; NaN
\* when there is none.
ParseInt(s) ==
  LET t == TrimLeft(s)
      u == IF HasSign(t) THEN Tail(t) ELSE t
      ds == LeadingDigits(u)
  IN IF ds = <<>> THEN NaN ELSE Num(Signed(t, DigitsValue(ds)))

\* parseFloat(s) on strings without a decimal point: as parseInt, and an
\* exponent part "e<digits>" after the digits is applied.
ParseFloat(s) ==
  LET t == TrimLeft(s)
      u == IF HasSign(t) THEN Tail(t) ELSE t
      ds == LeadingDigits(u)
      rest == SubSeq(u, Len(ds) + 1, Len(u))
      es == IF rest # <<>> /\ Head(rest) \in {"e", "E"}
            THEN LeadingDigits(Tail(rest)) ELSE <<>>
  IN IF ds = <<>> THEN NaN
     ELSE Num(Signed(t, DigitsValue(ds) * Pow10(DigitsValue(es))))

\* Variant: only NaN falls back to the default (x ?? d on a parsed number).
OrDefaultNaNOnly(x, d) == IF x.nan THEN d ELSE x.val

\* x || d for a number x: d when x is NaN or 0.
OrDefault(x, d) == IF x.nan \/ x.val = 0 THEN d ELSE x.val

\* parseInt(req.query[k]): an absent parameter is undefined and parses to NaN.
ParseIntParam(q, k) == IF Has(q, k) THEN ParseInt(q[k]) ELSE NaN

\* if (req.query[k]): the parameter is present and not the empty string.
\* category and sortBy are kept as strings, the parameters that get parsed
\* as sequences of characters.
Truthy(q, k) == Has(q, k) /\ q[k] # ""

TruthyChars(q, k) == Has(q, k) /\ q[k] # <<>>

\* ------------------------------------- router.get("/") query builder
DefaultPage == 1

DefaultLimit == 10

CategoryFilter(q) ==
  IF Truthy(q, "category") THEN [x \in {"category"} |-> q["category"]]
  ELSE EmptyMap

\* Variant: a bound that does not parse is left out of the filter.
GteBoundSkipNaN(q) ==
  IF TruthyChars(q, "minPrice") /\ ~ParseFloat(q["minPrice"]).nan
  THEN [x \in {"$gte"} |-> ParseFloat(q["minPrice"])] ELSE EmptyMap

GteBound(q) ==
  IF TruthyChars(q, "minPrice")
  THEN [x \in {"$gte"} |-> ParseFloat(q["minPrice"])] ELSE EmptyMap

LteBound(q) ==
  IF TruthyChars(q, "maxPrice")
  THEN [x \in {"$lte"} |-> ParseFloat(q["maxPrice"])] ELSE EmptyMap

\* Variant: the upper bound is never put into the filter.
PriceFilterMinOnly(q) ==
  IF TruthyChars(q, "minPrice") \/ TruthyChars(q, "maxPrice")
  THEN [x \in {"price"} |-> GteBound(q)]
  ELSE EmptyMap

PriceFilter(q) ==
  IF TruthyChars(q, "minPrice") \/ TruthyChars(q, "maxPrice")
  THEN [x \in {"price"} |-> GteBound(q) @@ LteBound(q)]
  ELSE EmptyMap

BuildQuery(q) == CategoryFilter(q) @@ PriceFilter(q)

BuildPage(q) == OrDefault(ParseIntParam(q, "page"), DefaultPage)

BuildLimit(q) == OrDefault(ParseIntParam(q, "limit"), DefaultLimit)

\* Variant: the skip count is taken one page too far.
BuildSkipPageTimesLimit(q) == BuildPage(q) * BuildLimit(q)

BuildSkip(q) == (BuildPage(q) - 1) * BuildLimit(q)

\* Variant: the two sort directions are exchanged.
BuildSortSwapped(q) ==
  IF Truthy(q, "sortBy")
  THEN IF q["sortBy"] = "price_asc" THEN [x \in {"price"} |-> -1]
       ELSE IF q["sortBy"] = "price_desc" THEN [x \in {"price"} |-> 1]
       ELSE EmptyMap
  ELSE EmptyMap

BuildSort(q) ==
  IF Truthy(q, "sortBy")
  THEN IF q["sortBy"] = "price_asc" THEN [x \in {"price"} |-> 1]
       ELSE IF q["sortBy"] = "price_desc" THEN [x \in {"price"} |-> -1]
       ELSE EmptyMap
  ELSE EmptyMap

\* ------------------------------ Product.find(query).sort().skip().limit()
\* The filter cannot be cast when a price bound is NaN.
CastsQuery(query) ==
  Has(query, "price") =>
    \A k \in DOMAIN query["price"] : ~query["price"][k].nan

MatchesQuery(p, query) ==
  /\ Has(query, "category") => p.category = query["category"]
  /\ Has(query, "price") =>
       /\ Has(query["price"], "$gte") =>
            p.price >= query["price"]["$gte"].val
       /\ Has(query["price"], "$lte") =>
            p.price <= query["price"]["$lte"].val

Matching(coll, query) == SelectSeq(coll, LAMBDA p : MatchesQuery(p, query))

Reorderings(s) ==
  {[i \in DOMAIN s |-> s[f[i]]] :
     f \in {g \in [DOMAIN s -> DOMAIN s] :
              \A i, j \in DOMAIN s : g[i] = g[j] => i = j}}

InOrder(s, dir) ==
  \A i, j \in DOMAIN s :
    i < j => IF dir = 1 THEN s[i].price <= s[j].price
             ELSE s[i].price >= s[j].price

\* The orders the storage engine may return: natural order without a sort
\* key, any order of the matches sorted by price (ties in any order) with.
SortedOrders(s, sort) ==
  IF Has(sort, "price")
  THEN {t \in Reorderings(s) : InOrder(t, sort["price"])}
  ELSE {s}

\* skip then limit; a negative limit is taken by its absolute value.
Window(s, skip, limit) ==
  LET n == IF limit < 0 THEN 0 - limit ELSE limit
  IN SubSeq(s, skip + 1, Min(skip + n, Len(s)))

\* The storage engine rejects a filter that does not cast and a negative skip.
FindOk(query, skip) == CastsQuery(query) /\ skip >= 0

Find(coll, query, sort, skip, limit) ==
  {Window(t, skip, limit) : t \in SortedOrders(Matching(coll, query), sort)}

\* The responses router.get("/") can send for query string q on collection
\* coll; storageOk tells whether the storage call itself goes through.
ListResponses(coll, q, storageOk) ==
  LET query == BuildQuery(q)
      skip == BuildSkip(q)
      limit == BuildLimit(q)
      sort == BuildSort(q)
  IN IF ~CastsQuery(query) THEN {JsonMessage(500, "CastError")}
     ELSE IF ~storageOk \/ ~FindOk(query, skip)
     THEN {JsonMessage(500, "StorageError")}
     ELSE {JsonList(products) :
             products \in Find(coll, query, sort, skip, limit)}

\* router.get("/")
GetProducts(q, fault) ==
  /\ listening
  /\ req' = [op |-> "list", id |-> 0, body |-> EmptyMap, query |-> q]
  /\ resp' \in ListResponses(db, q, StorageOk(fault))
  /\ UNCHANGED <<pc, conn, listening, db, nextId>>

\* ------------------------------------------- inputs of the list endpoint
\* Largest number of records in the collections the list endpoint is run on.
MaxListed == 3

\* Price and category of the records the collections are built from: three
\* prices in one category, and one record whose category differs by case only.
ListedKinds ==
  {<<1, "Electronics">>, <<2, "Electronics">>, <<3, "Electronics">>,
   <<2, "electronics">>}

ListedProduct(i, price, category) ==
  [id |-> i, name |-> "Laptop", description |-> "desc", price |-> price,
   category |-> category, inStock |-> TRUE, tags |-> <<>>, createdAt |-> 1]

Collections ==
  UNION {{[i \in 1..n |-> ListedProduct(i, k[i][1], k[i][2])] :
            k \in [1..n -> ListedKinds]} : n \in 0..MaxListed}

FilterQueries ==
  {c @@ mn @@ mx @@ sb :
     c \in Opt("category", {"", "Electronics", "electronics"}),
     mn \in Opt("minPrice", {<<>>, <<"1">>, <<"2">>, <<"a", "b", "c">>}),
     mx \in Opt("maxPrice", {<<>>, <<"2">>, <<"1", "e", "1">>, <<"x">>}),
     sb \in Opt("sortBy", {"price_asc", "price_desc", "name"})}

PagingQueries ==
  {mn @@ sb @@ pg @@ lm :
     mn \in Opt("minPrice", {<<"2">>}),
     sb \in Opt("sortBy", {"price_asc", "price_desc"}),
     pg \in Opt("page", {<<"x">>, <<"0">>, <<"1">>, <<"2">>, <<"-", "1">>}),
     lm \in Opt("limit", {<<"x">>, <<"0">>, <<"1">>, <<"2">>, <<"-", "2">>})}

ListQueries == FilterQueries \cup PagingQueries

\* ------------------------------------------------------- specification
Init ==
  /\ pc = "connectDB"
  /\ conn = "disconnected"
  /\ listening = FALSE
  /\ db = <<>>
  /\ nextId = 1
  /\ req = NoReq
  /\ resp = NoResp

Next ==
  \/ Boot_ConnectDB
  \/ Boot_Listen
  \/ ConnectDB_Resolve
  \/ ConnectDB_Reject
  \/ \E id \in IdParams, fault \in BOOLEAN : GetProductById(id, fault)
  \/ \E body \in CreateBodies, now \in Times, fault \in BOOLEAN :
       PostProduct(body, now, fault)
  \/ \E id \in IdParams, body \in UpdateBodies, fault \in BOOLEAN :
       PutProduct(id, body, fault)
  \/ \E id \in IdParams, fault \in BOOLEAN : DeleteProduct(id, fault)
  \/ \E q \in Opt("category", {"Electronics"}), fault \in BOOLEAN :
       GetProducts(q, fault)

Spec == Init /\ [][Next]_vars

\* The list endpoint as a function of the collection and the query string:
\* every collection within the bounds, every query of ListQueries.
ListInit ==
  /\ pc = "running"
  /\ conn = "connected"
  /\ listening = TRUE
  /\ db \in Collections
  /\ nextId = Len(db) + 1
  /\ req = NoReq
  /\ resp = NoResp

\* One list request per collection drawn.
ListNext ==
  /\ req = NoReq
  /\ \E q \in ListQueries, fault \in BOOLEAN : GetProducts(q, fault)

ListSpec == ListInit /\ [][ListNext]_vars

\* =================================================================== claims

\* ------------------------------------------------------------------- C1
BadPrice(body) == ~Has(body, "price") \/ body["price"] <= 0

C1_StoredPricesPositive == \A i \in DOMAIN db : db[i].price > 0

C1_CreateStep(body, now, fault) ==
  PostProduct(body, now, fault) =>
    /\ BadPrice(body) => (resp'.status = 400 /\ db' = db)
    /\ (body \in ValidBodies /\ StorageOk(fault)) =>
         /\ resp'.status = 201
         /\ resp'.products[1].price = body["price"]
         /\ resp'.products[1].price > 0
         /\ db' = Append(db, resp'.products[1])

\* C1: every stored record has price > 0 after any sequence of creates,
\* updates and deletes; a create whose price is missing or <= 0 is answered
\* 400 and stores nothing; a create with a valid body (the storage call going
\* through) is answered 201 and stores the record with the input price.
C1_PriceAlwaysPositive ==
  /\ []C1_StoredPricesPositive
  /\ [][req'.op = "post" =>
          \A now \in Times, fault \in BOOLEAN :
            C1_CreateStep(req'.body, now, fault)]_vars

\* A stored record exists and an update to a price <= 0 has been refused.
C1_Witness ==
  /\ db # <<>>
  /\ req.op = "put"
  /\ req.id \in IdsOf(db)
  /\ Has(req.body, "price") /\ req.body["price"] <= 0
  /\ resp.status = 400

\* ------------------------------------------------------------------- C2
ByIdOps == {"getById", "put", "delete"}

ByIdStep(id, fault) ==
  \/ GetProductById(id, fault)
  \/ \E body \in UpdateBodies : PutProduct(id, body, fault)
  \/ DeleteProduct(id, fault)

DeleteTwice(id) ==
  (id \in IdsOf(db) /\ DeleteProduct(id, FALSE)) =>
    (resp'.status = 200 /\ id \notin IdsOf(db'))

\* C2 as stated: for every id not in storage (the storage call going
\* through), GET, PUT and DELETE answer 404 and leave storage unchanged;
\* deleting an existing id answers 200 and removes it, so that a second
\* delete answers 404.
C2_Original ==
  [][(conn = "connected" /\ req'.op \in ByIdOps) =>
       /\ (req'.id \notin IdsOf(db) /\ ByIdStep(req'.id, FALSE)) =>
            (resp'.status = 404 /\ db' = db)
       /\ DeleteTwice(req'.id)]_vars

C2_AbsentIdStep(id) ==
  /\ (IsObjectId(id) /\ (GetProductById(id, FALSE) \/ DeleteProduct(id, FALSE)))
       => (resp'.status = 404 /\ db' = db)
  /\ (~IsObjectId(id) /\ (GetProductById(id, FALSE) \/ DeleteProduct(id, FALSE)))
       => (resp'.status = 500 /\ db' = db)
  /\ \A body \in UpdateBodies :
       PutProduct(id, body, FALSE) =>
         /\ db' = db
         /\ resp'.status =
              IF IsObjectId(id) /\ \A k \in DOMAIN body : PathValid(k, body[k])
              THEN 404 ELSE 400

\* C2, amended: for every well-formed id not in storage (the storage call
\* going through), GET and DELETE answer 404, and PUT answers 404 when its
\* body passes validation and 400 when it does not; an id that is not a
\* well-formed identifier is answered 500 by GET and DELETE and 400 by PUT;
\* storage is unchanged in all these cases; deleting an existing id twice
\* answers 200 and then 404.
C2_Amended ==
  [][(conn = "connected" /\ req'.op \in ByIdOps) =>
       /\ req'.id \notin IdsOf(db) => C2_AbsentIdStep(req'.id)
       /\ DeleteTwice(req'.id)]_vars

\* The second delete of an id that was created and deleted: 404.
C2_Witness ==
  /\ req.op = "delete"
  /\ IsObjectId(req.id) /\ req.id < nextId
  /\ req.id \notin IdsOf(db)
  /\ conn = "connected"
  /\ resp.status = 404

\* ------------------------------------------------------------------- C3
\* C3: every fault is answered by its bucket in all handlers: validation
\* error 400, nonexistent identifier 404, storage fault 500, and every error
\* response body is an object with a message field.
C3_Taxonomy ==
  /\ resp.message = "ValidationError" => resp.status = 400
  /\ resp.message = "Product not found" => resp.status = 404
  /\ resp.message = "StorageError" => resp.status = 500
  /\ resp.status >= 400 => resp.body = "message"

\* ------------------------------------------------------------------- C7
C7_UpdateStep(id, body, fault) ==
  PutProduct(id, body, fault) =>
    /\ Len(db') = Len(db)
    /\ \A i \in DOMAIN db :
         /\ db'[i].id = db[i].id
         /\ db'[i].createdAt = db[i].createdAt
         /\ db[i].id # id => db'[i] = db[i]
         /\ \A k \in DOMAIN db[i] :
              ~Has(body, k) => db'[i][k] = db[i][k]
         /\ (db[i].id = id /\ resp'.status = 200) =>
              \A k \in DOMAIN body \ {"id", "createdAt"} : db'[i][k] = body[k]

C8_ConnectedBeforeListening == listening => conn = "connected"

\* ------------------------------------------- values of the query inputs
\* What the numeric query strings of ListQueries denote.
NumeralValue(s) ==
  CASE s = <<"0">> -> 0
    [] s = <<"1">> -> 1
    [] s = <<"2">> -> 2
    [] s = <<"-", "1">> -> 0 - 1
    [] s = <<"-", "2">> -> 0 - 2
    [] s = <<"1", "e", "1">> -> 10

Numerals ==
  {<<"0">>, <<"1">>, <<"2">>, <<"-", "1">>, <<"-", "2">>, <<"1", "e", "1">>}

PositiveNumerals == {<<"1">>, <<"2">>}

NonNumeric == {<<"a", "b", "c">>, <<"x">>}

Listed == req.op = "list" /\ resp.status = 200

\* ------------------------------------------------------------------- C4
C4_Satisfies(p, q) ==
  /\ (Has(q, "category") /\ q["category"] # "") => p.category = q["category"]
  /\ (Has(q, "minPrice") /\ q["minPrice"] \in Numerals) =>
       p.price >= NumeralValue(q["minPrice"])
  /\ (Has(q, "maxPrice") /\ q["maxPrice"] \in Numerals) =>
       p.price <= NumeralValue(q["maxPrice"])

\* C4: every record the list endpoint returns is a stored record that
\* satisfies every filter supplied (category by exact equality, price within
\* the inclusive bounds given), and when no page or limit is given every
\* stored record that satisfies them is returned.
C4_FiltersHold ==
  Listed =>
    /\ \A i \in DOMAIN resp.products :
         /\ resp.products[i] \in Range(db)
         /\ C4_Satisfies(resp.products[i], req.query)
    /\ (~Has(req.query, "page") /\ ~Has(req.query, "limit")) =>
         Range(resp.products) =
           {p \in Range(db) : C4_Satisfies(p, req.query)}

\* A list by category and both price bounds that keeps some records and
\* leaves out one for its category's case and one for its price.
C4_Witness ==
  /\ Listed
  /\ Has(req.query, "category") /\ req.query["category"] = "Electronics"
  /\ Has(req.query, "minPrice") /\ req.query["minPrice"] = <<"2">>
  /\ Has(req.query, "maxPrice") /\ req.query["maxPrice"] = <<"2">>
  /\ resp.products # <<>>
  /\ \E p \in Range(db) : p.category = "electronics" /\ p.price = 2
  /\ \E p \in Range(db) : p.category = "Electronics" /\ p.price = 3

\* ------------------------------------------------------------------- C5
\* C5: for positive page p and limit l the list endpoint returns positions
\* (p-1)*l + 1 .. p*l of the filtered and sorted matches: at most l records,
\* none when there are at most (p-1)*l matches.
C5_PageWindow ==
  (/\ Listed
   /\ Has(req.query, "page") /\ req.query["page"] \in PositiveNumerals
   /\ Has(req.query, "limit") /\ req.query["limit"] \in PositiveNumerals) =>
    LET p == NumeralValue(req.query["page"])
        l == NumeralValue(req.query["limit"])
        matches == Matching(db, BuildQuery(req.query))
    IN /\ \E s \in SortedOrders(matches, BuildSort(req.query)) :
            resp.products = SubSeq(s, (p - 1) * l + 1, Min(p * l, Len(s)))
       /\ Len(resp.products) <= l
       /\ Len(matches) <= (p - 1) * l => resp.products = <<>>

\* page=2&limit=1 on three unfiltered, unsorted records: the second one.
C5_Witness ==
  /\ Listed
  /\ req.query = [page |-> <<"2">>, limit |-> <<"1">>]
  /\ Len(db) = 3
  /\ resp.products = <<db[2]>>

\* ------------------------------------------------------------------- C6
NonDecreasing(ps) ==
  \A i \in 1..(Len(ps) - 1) : ps[i].price <= ps[i + 1].price

NonIncreasing(ps) ==
  \A i \in 1..(Len(ps) - 1) : ps[i].price >= ps[i + 1].price

C6_SortKey(q) == IF Has(q, "sortBy") THEN q["sortBy"] ELSE ""

\* C6: price_asc gives a non-decreasing page and price_desc a non-increasing
\* one; any other sortBy, or none, gives the matches in storage order; the
\* sort comes before the window, so the page is a slice of the sorted matches
\* (on the first page no match left out is cheaper than a returned record for
\* price_asc, or dearer for price_desc).
C6_SortedPage ==
  Listed =>
    LET q == req.query
        matches == Matching(db, BuildQuery(q))
        left == {m \in Range(matches) : m \notin Range(resp.products)}
    IN /\ C6_SortKey(q) = "price_asc" =>
            /\ NonDecreasing(resp.products)
            /\ \E s \in Reorderings(matches) :
                 /\ NonDecreasing(s)
                 /\ resp.products = Window(s, BuildSkip(q), BuildLimit(q))
            /\ BuildSkip(q) = 0 =>
                 \A m \in left, r \in Range(resp.products) : r.price <= m.price
       /\ C6_SortKey(q) = "price_desc" =>
            /\ NonIncreasing(resp.products)
            /\ \E s \in Reorderings(matches) :
                 /\ NonIncreasing(s)
                 /\ resp.products = Window(s, BuildSkip(q), BuildLimit(q))
            /\ BuildSkip(q) = 0 =>
                 \A m \in left, r \in Range(resp.products) : r.price >= m.price
       /\ C6_SortKey(q) \notin {"price_asc", "price_desc"} =>
            resp.products = Window(matches, BuildSkip(q), BuildLimit(q))

\* price_asc with limit=1 on records priced 3, 1, 2: the record priced 1,
\* which is not the first one stored.
C6_Witness ==
  /\ Listed
  /\ req.query = [sortBy |-> "price_asc", limit |-> <<"1">>]
  /\ Len(db) = 3
  /\ db[1].price = 3 /\ db[2].price = 1 /\ db[3].price = 2
  /\ resp.products = <<db[2]>>

\* ------------------------------------------------------------------- C9
PriceParams == {"minPrice", "maxPrice"}

\* What the same request answers with parameter k left out.
C9_WithoutParam(k) ==
  ListResponses(db, Without(req.query, k), TRUE)
    \cup ListResponses(db, Without(req.query, k), FALSE)

\* C9 as stated: a minPrice or maxPrice that does not parse as a number is
\* treated as absent: the request answers what it answers with the parameter
\* left out.
C9_Original ==
  req.op = "list" =>
    \A k \in PriceParams :
      (Has(req.query, k) /\ req.query[k] \in NonNumeric) =>
        resp \in C9_WithoutParam(k)

\* C9, amended: a minPrice or maxPrice that is present, not empty and does
\* not parse as a number is not treated as absent: its NaN bound is put into
\* the price filter, the storage layer cannot cast the filter and the request
\* is answered 500 with a message body; only an empty parameter is treated as
\* absent.
C9_Amended ==
  req.op = "list" =>
    \A k \in PriceParams :
      Has(req.query, k) =>
        /\ req.query[k] \in NonNumeric =>
             (resp.status = 500 /\ resp.body = "message")
        /\ req.query[k] = <<>> => resp \in C9_WithoutParam(k)

\* minPrice=abc alone on a non-empty collection: answered 500.
C9_Witness ==
  /\ req.op = "list"
  /\ req.query = [minPrice |-> <<"a", "b", "c">>]
  /\ conn = "connected"
  /\ db # <<>>
  /\ resp.status = 500

\* ------------------------------------------------------------------ C10
C10_Page(q) ==
  IF Has(q, "page") /\ q["page"] \in Numerals
  THEN NumeralValue(q["page"]) ELSE DefaultPage

C10_Limit(q) ==
  IF Has(q, "limit") /\ q["limit"] \in Numerals
  THEN NumeralValue(q["limit"]) ELSE DefaultLimit

\* C10 as stated: page is 1 and limit is 10 exactly when the parameter is
\* absent or non-numeric; a parameter that parses as an integer, 0 and
\* negative values included, is used unchanged, and skip = (page - 1) * limit.
C10_Original ==
  req.op = "list" =>
    /\ BuildPage(req.query) = C10_Page(req.query)
    /\ BuildLimit(req.query) = C10_Limit(req.query)
    /\ BuildSkip(req.query) = (C10_Page(req.query) - 1) * C10_Limit(req.query)

C10_PageOrDefault(q) == IF C10_Page(q) = 0 THEN DefaultPage ELSE C10_Page(q)

C10_LimitOrDefault(q) ==
  IF C10_Limit(q) = 0 THEN DefaultLimit ELSE C10_Limit(q)

\* C10, amended: page is 1 and limit is 10 when the parameter is absent,
\* non-numeric or parses to 0; any other integer, negative values included,
\* is used unchanged; skip = (page - 1) * limit from these values, so that
\* with both positive the page returned is positions (page - 1) * limit + 1
\* to page * limit of the sorted matches (page=0 is served as page 1).
C10_Amended ==
  req.op = "list" =>
    LET page == C10_PageOrDefault(req.query)
        limit == C10_LimitOrDefault(req.query)
        matches == Matching(db, BuildQuery(req.query))
    IN /\ BuildPage(req.query) = page
       /\ BuildLimit(req.query) = limit
       /\ BuildSkip(req.query) = (page - 1) * limit
       /\ (resp.status = 200 /\ page >= 1 /\ limit >= 1) =>
            \E s \in SortedOrders(matches, BuildSort(req.query)) :
              resp.products =
                SubSeq(s, (page - 1) * limit + 1, Min(page * limit, Len(s)))

\* page=0&limit=1 on two or more records: answered as page 1, the first
\* record.
C10_Witness ==
  /\ Listed
  /\ req.query = [page |-> <<"0">>, limit |-> <<"1">>]
  /\ Len(db) >= 2
  /\ resp.products = <<db[1]>>

====
